---- MODULE Spec2Model ----
(***************************************************************************)
(* redis-derive: the name transformer (src/util.rs) and the encode/decode  *)
(* procedures generated for records (src/data_struct.rs) and enumerations  *)
(* (src/data_enum.rs).                                                     *)
(*                                                                         *)
(* Strings are sequences of one-character strings, so that the case        *)
(* conversions and the attribute scanner work character by character as    *)
(* the Rust code does.  Option<T> is a sequence of length 0 (None) or 1    *)
(* (Some).                                                                 *)
(***************************************************************************)
EXTENDS Integers, Sequences, FiniteSets, TLC

VARIABLES
    pc,           \* position of the scenario being run
    name,         \* identifier handed to the name transformer
    rename_all,   \* ParsedAttributeMap.rename_all : Option<String>
    field_tokens, \* token string of a field's #[redis(...)] attribute
    wire,         \* result of the name transformer
    wire2,        \* result of applying the same rule to `wire`
    decl,         \* the type declaration handed to the derive macros
    to_impl,      \* what derive(ToRedisArgs) generated
    from_impl,    \* what derive(FromRedisValue) generated
    self,         \* the instance being encoded
    out,          \* the arguments written to the RedisWrite sink
    v,            \* the redis::Value handed to from_redis_value
    count,        \* what num_of_args returned
    result        \* what from_redis_value returned

vars == <<pc, name, rename_all, field_tokens, wire, wire2,
          decl, to_impl, from_impl, self, out, v, count, result>>

nameVars == <<name, rename_all, field_tokens, wire, wire2>>
typeVars == <<decl, to_impl, from_impl, self, out, v, count, result>>

---------------------------------------------------------------------------
(* Bounds *)

MaxLen == 3          \* longest identifier given to the name transformer
MaxFields == 2       \* most fields a declared record has
MaxVariants == 3     \* most variants a declared enumeration has

---------------------------------------------------------------------------
(* Option<T> *)

None == <<>>
Some(x) == <<x>>
IsSome(o) == Len(o) = 1
Unwrap(o) == o[1]

---------------------------------------------------------------------------
(* Characters: char::is_uppercase, is_lowercase, to_uppercase,             *)
(* to_lowercase on the ASCII letters; every other character is caseless.   *)

LowerSeq == <<"a","b","c","d","e","f","g","h","i","j","k","l","m",
              "n","o","p","q","r","s","t","u","v","w","x","y","z">>
UpperSeq == <<"A","B","C","D","E","F","G","H","I","J","K","L","M",
              "N","O","P","Q","R","S","T","U","V","W","X","Y","Z">>

is_uppercase(c) == \E i \in 1..Len(UpperSeq) : UpperSeq[i] = c
is_lowercase(c) == \E i \in 1..Len(LowerSeq) : LowerSeq[i] = c

to_uppercase(c) ==
    IF is_lowercase(c)
    THEN UpperSeq[CHOOSE i \in 1..Len(LowerSeq) : LowerSeq[i] = c]
    ELSE c

to_lowercase(c) ==
    IF is_uppercase(c)
    THEN LowerSeq[CHOOSE i \in 1..Len(UpperSeq) : UpperSeq[i] = c]
    ELSE c

\* str::to_lowercase / str::to_uppercase
str_to_lowercase(s) == [i \in 1..Len(s) |-> to_lowercase(s[i])]
str_to_uppercase(s) == [i \in 1..Len(s) |-> to_uppercase(s[i])]

---------------------------------------------------------------------------
(* Case conversions, src/util.rs *)

RECURSIVE pascal_loop(_, _, _)
pascal_loop(s, i, capitalize_next) ==
    IF i > Len(s) THEN <<>>
    ELSE IF s[i] = "_" \/ s[i] = "-" THEN pascal_loop(s, i + 1, TRUE)
    ELSE IF capitalize_next
         THEN <<to_uppercase(s[i])>> \o pascal_loop(s, i + 1, FALSE)
         ELSE <<to_lowercase(s[i])>> \o pascal_loop(s, i + 1, FALSE)

to_pascal_case(s) == pascal_loop(s, 1, TRUE)

\* the variant that leaves the first letter as PascalCase made it
to_camel_case_first_kept(s) == to_pascal_case(s)

to_camel_case(s) ==
    LET pascal == to_pascal_case(s)
    IN IF pascal = <<>> THEN pascal
       ELSE <<to_lowercase(Head(pascal))>> \o Tail(pascal)

\* the variant that separates only where an uppercase character follows a
\* lowercase one
RECURSIVE snake_loop_after_lower(_, _, _)
snake_loop_after_lower(s, i, prev_is_lower) ==
    IF i > Len(s) THEN <<>>
    ELSE LET c == s[i]
             sep == is_uppercase(c) /\ i > 1 /\ prev_is_lower
         IN (IF sep THEN <<"_">> ELSE <<>>)
            \o <<to_lowercase(c)>>
            \o snake_loop_after_lower(s, i + 1, is_lowercase(c))

RECURSIVE snake_loop(_, _, _)
snake_loop(s, i, prev_is_lower) ==
    IF i > Len(s) THEN <<>>
    ELSE LET c == s[i]
             sep == /\ is_uppercase(c)
                    /\ i > 1
                    /\ \/ prev_is_lower
                       \/ (i + 1 <= Len(s) /\ is_lowercase(s[i + 1]))
         IN (IF sep THEN <<"_">> ELSE <<>>)
            \o <<to_lowercase(c)>>
            \o snake_loop(s, i + 1, is_lowercase(c))

to_snake_case(s) == snake_loop(s, 1, FALSE)

to_kebab_case(s) ==
    LET snake == to_snake_case(s)
    IN [i \in 1..Len(snake) |-> IF snake[i] = "_" THEN "-" ELSE snake[i]]

\* The value standing for the panic!() of transform_variant_name: the macro
\* aborts and no string is produced.  "!" occurs in no identifier.
Panic == <<"!">>

ValidRules == {"lowercase", "UPPERCASE", "PascalCase", "camelCase",
               "snake_case", "kebab-case"}

transform_variant_name(variant_name, rule_opt) ==
    IF ~IsSome(rule_opt) THEN variant_name
    ELSE LET rename_rule == Unwrap(rule_opt)
         IN CASE rename_rule = "lowercase"  -> str_to_lowercase(variant_name)
              [] rename_rule = "UPPERCASE"  -> str_to_uppercase(variant_name)
              [] rename_rule = "PascalCase" -> to_pascal_case(variant_name)
              [] rename_rule = "camelCase"  -> to_camel_case(variant_name)
              [] rename_rule = "snake_case" -> to_snake_case(variant_name)
              [] rename_rule = "kebab-case" -> to_kebab_case(variant_name)
              [] OTHER -> Panic

\* the variant in which the case rule is applied to the override as well
transform_field_name_rule_on_rename(field_name, rule_opt, field_rename) ==
    transform_variant_name(IF IsSome(field_rename) THEN Unwrap(field_rename) ELSE field_name,
                           rule_opt)

transform_field_name(field_name, rule_opt, field_rename) ==
    IF IsSome(field_rename) THEN Unwrap(field_rename)
    ELSE transform_variant_name(field_name, rule_opt)

---------------------------------------------------------------------------
(* Attribute scanning, src/util.rs.  A field's attribute arrives as the    *)
(* token string of #[redis(...)]; <<>> stands for a field without one.     *)

\* first index >= from at which pat occurs in s, 0 when there is none
RECURSIVE find_from(_, _, _)
find_from(s, pat, from) ==
    IF from + Len(pat) - 1 > Len(s) THEN 0
    ELSE IF \A j \in 1..Len(pat) : s[from + j - 1] = pat[j] THEN from
    ELSE find_from(s, pat, from + 1)

str_find(s, pat) == find_from(s, pat, 1)
str_contains(s, pat) == str_find(s, pat) # 0

extract_quoted_value(tokens, key) ==
    LET pattern == key \o <<" ", "=">>
        start_pos == str_find(tokens, pattern)
    IN IF start_pos = 0 THEN None
       ELSE LET after_equals == SubSeq(tokens, start_pos + Len(pattern), Len(tokens))
                quote_start == str_find(after_equals, <<"\"">>)
            IN IF quote_start = 0 THEN None
               ELSE LET after_quote == SubSeq(after_equals, quote_start + 1, Len(after_equals))
                        quote_end == str_find(after_quote, <<"\"">>)
                    IN IF quote_end = 0 THEN None
                       ELSE Some(SubSeq(after_quote, 1, quote_end - 1))

KwSkip == <<"s","k","i","p">>
KwRename == <<"r","e","n","a","m","e">>

parse_field_attributes(tokens) ==
    [skip   |-> str_contains(tokens, KwSkip),
     rename |-> extract_quoted_value(tokens, KwRename)]

\* The token strings a field attribute is written as.
TokSkip == KwSkip
TokRename(lit) == KwRename \o <<" ", "=", " ", "\"">> \o lit \o <<"\"">>
TokSkipRename(lit) == KwSkip \o <<" ", ",", " ">> \o TokRename(lit)

---------------------------------------------------------------------------
(* Type declarations, as the derive macros receive them (syn::DeriveInput) *)
(*   record:      [shape |-> "named" | "tuple" | "unit", rename_all,       *)
(*                 fields |-> sequence of [ident, tokens, ty]]             *)
(*   enumeration: [shape |-> "enum", rename_all,                           *)
(*                 variants |-> sequence of [ident, unit]]                 *)
(* ty names the field's Rust type: "String", "Option" (Option<String>),    *)
(* "Vec" (Vec<String>) or "Inner" (the named-field record InnerDecl).      *)

InnerDecl ==
    [shape |-> "named", rename_all |-> None,
     fields |-> << [ident |-> <<"x">>, tokens |-> <<>>, ty |-> "String"],
                   [ident |-> <<"y">>, tokens |-> <<>>, ty |-> "String"] >>]

\* `if field_attrs.skip { continue; }`: the fields from the i-th on that
\* are not marked skip
RECURSIVE unskipped(_, _)
unskipped(fields, i) ==
    IF i > Len(fields) THEN <<>>
    ELSE (IF parse_field_attributes(fields[i].tokens).skip THEN <<>> ELSE <<fields[i]>>)
         \o unskipped(fields, i + 1)

\* the loop of derive_to_redis_struct / derive_from_redis_struct over
\* fields_named.named: skipped fields are dropped, the others get their
\* wire name
regular_fields(d) ==
    LET kept == unskipped(d.fields, 1)
    IN [i \in 1..Len(kept) |->
          [ident |-> kept[i].ident,
           name  |-> transform_field_name(kept[i].ident, d.rename_all,
                        parse_field_attributes(kept[i].tokens).rename),
           ty    |-> kept[i].ty]]

derive_to_redis_struct(d) ==
    CASE d.shape = "named" ->
           IF \E i \in 1..Len(regular_fields(d)) : regular_fields(d)[i].name = Panic
           THEN [status |-> "panic"]
           ELSE [status |-> "ok", shape |-> "named", fields |-> regular_fields(d)]
      [] d.shape = "tuple" ->
           [status |-> "ok", shape |-> "tuple",
            tys |-> [i \in 1..Len(d.fields) |-> d.fields[i].ty]]
      [] d.shape = "unit" ->
           [status |-> "ok", shape |-> "unit"]

derive_from_redis_struct(d) ==
    CASE d.shape = "named" ->
           IF \E i \in 1..Len(regular_fields(d)) : regular_fields(d)[i].name = Panic
           THEN [status |-> "panic"]
           ELSE [status |-> "ok", shape |-> "named", fields |-> regular_fields(d)]
      [] d.shape = "tuple" ->
           [status |-> "ok", shape |-> "tuple",
            tys |-> [i \in 1..Len(d.fields) |-> d.fields[i].ty]]
      [] d.shape = "unit" ->
           [status |-> "ok", shape |-> "unit"]

\* variant_data of derive_to_redis_enum / derive_from_redis_enum
variant_data(d) ==
    [i \in 1..Len(d.variants) |->
        [ident |-> d.variants[i].ident,
         name  |-> transform_variant_name(d.variants[i].ident, d.rename_all)]]

derive_to_redis_enum(d) ==
    IF ~(\A i \in 1..Len(d.variants) : d.variants[i].unit)
    THEN [status |-> "panic"]
    ELSE IF \E i \in 1..Len(d.variants) : variant_data(d)[i].name = Panic
    THEN [status |-> "panic"]
    ELSE [status |-> "ok", shape |-> "enum", variants |-> variant_data(d)]

\* the variant in which the decoder matches the source identifiers
derive_from_redis_enum_idents(d) ==
    IF ~(\A i \in 1..Len(d.variants) : d.variants[i].unit)
    THEN [status |-> "panic"]
    ELSE IF \E i \in 1..Len(d.variants) : variant_data(d)[i].name = Panic
    THEN [status |-> "panic"]
    ELSE [status |-> "ok", shape |-> "enum",
          variants |-> [i \in 1..Len(d.variants) |->
                          [ident |-> d.variants[i].ident, name |-> d.variants[i].ident]]]

derive_from_redis_enum(d) ==
    IF ~(\A i \in 1..Len(d.variants) : d.variants[i].unit)
    THEN [status |-> "panic"]
    ELSE IF \E i \in 1..Len(d.variants) : variant_data(d)[i].name = Panic
    THEN [status |-> "panic"]
    ELSE [status |-> "ok", shape |-> "enum", variants |-> variant_data(d)]

\* the two proc-macro entry points of lib.rs
to_redis_args(d) ==
    IF d.shape = "enum" THEN derive_to_redis_enum(d) ELSE derive_to_redis_struct(d)

from_redis_value_macro(d) ==
    IF d.shape = "enum" THEN derive_from_redis_enum(d) ELSE derive_from_redis_struct(d)

---------------------------------------------------------------------------
(* Generated encoders.  An instance of a named-field record is a function  *)
(* from field identifiers to values, of a tuple record a sequence of       *)
(* values, of a zero-field record <<>>, of an enumeration the variant's    *)
(* index.  A String value is a string, an Option value None or Some(s), a  *)
(* Vec value a sequence of strings.                                        *)

RECURSIVE write_field_args(_, _)
RECURSIVE named_write_redis_args(_, _, _)

\* (&self.field).write_redis_args(out) for the field's type: String writes
\* one argument, Option<String> none or one, Vec<String> one per element,
\* a nested record whatever its own generated encoder writes
write_field_args(ty, val) ==
    CASE ty = "String" -> <<val>>
      [] ty = "Option" -> IF IsSome(val) THEN <<Unwrap(val)>> ELSE <<>>
      [] ty = "Vec"    -> val
      [] ty = "Inner"  -> named_write_redis_args(
                              derive_to_redis_struct(InnerDecl).fields, val, 1)

\* the variant that writes no name for a field whose value writes nothing
named_write_redis_args_pairs_only(fields, inst, i) ==
    IF i > Len(fields) THEN <<>>
    ELSE (IF write_field_args(fields[i].ty, inst[fields[i].ident]) = <<>> THEN <<>>
          ELSE <<fields[i].name>> \o write_field_args(fields[i].ty, inst[fields[i].ident]))
         \o named_write_redis_args(fields, inst, i + 1)

\* #( out.write_arg(name); (&self.ident).write_redis_args(out); )*
named_write_redis_args(fields, inst, i) ==
    IF i > Len(fields) THEN <<>>
    ELSE <<fields[i].name>>
         \o write_field_args(fields[i].ty, inst[fields[i].ident])
         \o named_write_redis_args(fields, inst, i + 1)

RECURSIVE tuple_write_redis_args(_, _, _)
tuple_write_redis_args(tys, inst, i) ==
    IF i > Len(tys) THEN <<>>
    ELSE write_field_args(tys[i], inst[i]) \o tuple_write_redis_args(tys, inst, i + 1)

unit_write_redis_args(inst) == <<>>

\* the variant that writes the source identifier
enum_write_redis_args_ident(variants, inst) == <<variants[inst].ident>>

enum_write_redis_args(variants, inst) == <<variants[inst].name>>

write_redis_args(impl, inst) ==
    CASE impl.shape = "named" -> named_write_redis_args(impl.fields, inst, 1)
      [] impl.shape = "tuple" -> tuple_write_redis_args(impl.tys, inst, 1)
      [] impl.shape = "unit"  -> unit_write_redis_args(inst)
      [] impl.shape = "enum"  -> enum_write_redis_args(impl.variants, inst)

RECURSIVE field_num_of_args(_, _)
RECURSIVE named_num_of_args(_, _, _)

\* (&self.field).num_of_args() for the field's type: the library types
\* report the number of arguments they write, a nested record whatever its
\* own generated num_of_args returns
field_num_of_args(ty, val) ==
    CASE ty = "String" -> 1
      [] ty = "Option" -> IF IsSome(val) THEN 1 ELSE 0
      [] ty = "Vec"    -> Len(val)
      [] ty = "Inner"  -> named_num_of_args(
                              derive_to_redis_struct(InnerDecl).fields, val, 1)

\* the variant that does not count the field names
named_num_of_args_values_only(fields, inst, i) ==
    IF i > Len(fields) THEN 0
    ELSE field_num_of_args(fields[i].ty, inst[fields[i].ident])
         + named_num_of_args(fields, inst, i + 1)

\* #( count += 1; count += (&self.ident).num_of_args(); )*
named_num_of_args(fields, inst, i) ==
    IF i > Len(fields) THEN 0
    ELSE 1 + field_num_of_args(fields[i].ty, inst[fields[i].ident])
         + named_num_of_args(fields, inst, i + 1)

RECURSIVE tuple_num_of_args(_, _, _)
tuple_num_of_args(tys, inst, i) ==
    IF i > Len(tys) THEN 0
    ELSE field_num_of_args(tys[i], inst[i]) + tuple_num_of_args(tys, inst, i + 1)

unit_num_of_args(inst) == 0

enum_num_of_args(variants, inst) == 1

num_of_args(impl, inst) ==
    CASE impl.shape = "named" -> named_num_of_args(impl.fields, inst, 1)
      [] impl.shape = "tuple" -> tuple_num_of_args(impl.tys, inst, 1)
      [] impl.shape = "unit"  -> unit_num_of_args(inst)
      [] impl.shape = "enum"  -> enum_num_of_args(impl.variants, inst)

---------------------------------------------------------------------------
(* redis::Value and redis::RedisResult *)

Nil == [t |-> "Nil"]
IntValue(n) == [t |-> "Int", n |-> n]
BulkString(b) == [t |-> "BulkString", b |-> b]
SimpleString(b) == [t |-> "SimpleString", b |-> b]
VerbatimString(b) == [t |-> "VerbatimString", b |-> b]
Array(items) == [t |-> "Array", items |-> items]
Map(pairs) == [t |-> "Map", pairs |-> pairs]   \* pairs: sequence of <<key, value>>

Ok(x) == [ok |-> TRUE, val |-> x]
Err(kind, desc, detail) == [ok |-> FALSE, kind |-> kind, desc |-> desc, detail |-> detail]

NoDetail == [none |-> TRUE]

\* a byte that is no valid UTF-8
InvalidByte == "\\xFF"
from_utf8_ok(b) == \A i \in 1..Len(b) : b[i] # InvalidByte

DigitSeq == <<"0","1","2","3","4","5","6","7","8","9">>

---------------------------------------------------------------------------
(* Generated decoders *)

\* String::from_redis_value
string_from_redis_value(val) ==
    CASE val.t = "BulkString" ->
           IF from_utf8_ok(val.b) THEN Ok(val.b)
           ELSE Err("TypeError", "Invalid UTF-8", NoDetail)
      [] val.t \in {"SimpleString", "VerbatimString"} -> Ok(val.b)
      [] val.t = "Int" -> Ok(<<DigitSeq[val.n + 1]>>)
      [] OTHER -> Err("TypeError", "Response type not string compatible.", NoDetail)

\* the variant that reports the last error
LastErr(rs) ==
    IF \A i \in 1..Len(rs) : rs[i].ok THEN 0
    ELSE CHOOSE i \in 1..Len(rs) : ~rs[i].ok /\ \A j \in (i + 1)..Len(rs) : rs[j].ok

\* first index whose element result is an error, 0 when all are Ok
FirstErr(rs) ==
    IF \A i \in 1..Len(rs) : rs[i].ok THEN 0
    ELSE CHOOSE i \in 1..Len(rs) : ~rs[i].ok /\ \A j \in 1..(i - 1) : rs[j].ok

\* Vec<String>::from_redis_value
vec_from_redis_value(val) ==
    CASE val.t = "Array" ->
           LET rs == [i \in 1..Len(val.items) |-> string_from_redis_value(val.items[i])]
           IN IF FirstErr(rs) = 0 THEN Ok([i \in 1..Len(rs) |-> rs[i].val])
              ELSE rs[FirstErr(rs)]
      [] val.t = "Nil" -> Ok(<<>>)
      [] val.t = "BulkString" ->
           IF string_from_redis_value(val).ok
           THEN Ok(<<string_from_redis_value(val).val>>)
           ELSE Err("TypeError", "Response type not vector compatible.", NoDetail)
      [] OTHER -> Err("TypeError", "Response type not vector compatible.", NoDetail)

\* Option<String>::from_redis_value
option_from_redis_value(val) ==
    IF val.t = "Nil" THEN Ok(None)
    ELSE IF string_from_redis_value(val).ok
         THEN Ok(Some(string_from_redis_value(val).val))
         ELSE string_from_redis_value(val)

\* the name/value pairs of an even-length Array (items.chunks(2)) or of a Map
ChunkPairs(val) ==
    IF val.t = "Array"
    THEN [i \in 1..(Len(val.items) \div 2) |-> <<val.items[2 * i - 1], val.items[2 * i]>>]
    ELSE val.pairs

\* the variant in which the first pair under a key is kept
fields_map_get_first(pairs, key) ==
    LET hits == {i \in 1..Len(pairs) : string_from_redis_value(pairs[i][1]).val = key}
    IN IF hits = {} THEN None
       ELSE Some(pairs[CHOOSE i \in hits : \A j \in hits : i <= j][2])

\* fields_map.get(name) after the insert loop: the value inserted last
\* under that key, None when no pair has it
fields_map_get(pairs, key) ==
    LET hits == {i \in 1..Len(pairs) : string_from_redis_value(pairs[i][1]).val = key}
    IN IF hits = {} THEN None
       ELSE Some(pairs[CHOOSE i \in hits : \A j \in hits : j <= i][2])

RECURSIVE field_from_redis_value(_, _)
RECURSIVE named_from_redis_value(_, _)

\* redis::FromRedisValue::from_redis_value(value) for the field's type
field_from_redis_value(ty, val) ==
    CASE ty = "String" -> string_from_redis_value(val)
      [] ty = "Option" -> option_from_redis_value(val)
      [] ty = "Vec"    -> vec_from_redis_value(val)
      [] ty = "Inner"  -> named_from_redis_value(
                              derive_from_redis_struct(InnerDecl).fields, val)

\* the variant that takes a field without a pair from the Array element at
\* the field's position
named_from_redis_value_positional(fields, val) ==
    IF (val.t = "Array" /\ Len(val.items) % 2 = 0) \/ val.t = "Map"
    THEN LET pairs == ChunkPairs(val)
             keys == [i \in 1..Len(pairs) |-> string_from_redis_value(pairs[i][1])]
         IN IF FirstErr(keys) # 0 THEN keys[FirstErr(keys)]
            ELSE LET got(i) == fields_map_get(pairs, fields[i].name)
                     rs == [i \in 1..Len(fields) |->
                              IF IsSome(got(i))
                              THEN LET r == field_from_redis_value(fields[i].ty, Unwrap(got(i)))
                                   IN IF r.ok THEN r
                                      ELSE Err("TypeError", "Failed to parse field",
                                               [field |-> fields[i].name, cause |-> r])
                              ELSE IF val.t = "Array" /\ i <= Len(val.items)
                              THEN field_from_redis_value(fields[i].ty, val.items[i])
                              ELSE Err("TypeError", "Missing required field",
                                       [field |-> fields[i].name])]
                 IN IF FirstErr(rs) # 0 THEN rs[FirstErr(rs)]
                    ELSE Ok([id \in {fields[i].ident : i \in 1..Len(fields)} |->
                               rs[CHOOSE i \in 1..Len(fields) : fields[i].ident = id].val])
    ELSE IF val.t = "Nil"
    THEN Err("TypeError", "Cannot deserialize struct from nil value", NoDetail)
    ELSE Err("TypeError", "Expected Array or Map for struct", NoDetail)

\* the variant that expects the pair of the i-th field at the i-th position
named_from_redis_value_in_order(fields, val) ==
    IF (val.t = "Array" /\ Len(val.items) % 2 = 0) \/ val.t = "Map"
    THEN LET pairs == ChunkPairs(val)
             keys == [i \in 1..Len(pairs) |-> string_from_redis_value(pairs[i][1])]
         IN IF FirstErr(keys) # 0 THEN keys[FirstErr(keys)]
            ELSE LET got(i) == IF i <= Len(pairs) /\ keys[i].val = fields[i].name
                               THEN Some(pairs[i][2])
                               ELSE None
                     rs == [i \in 1..Len(fields) |->
                              IF IsSome(got(i))
                              THEN LET r == field_from_redis_value(fields[i].ty, Unwrap(got(i)))
                                   IN IF r.ok THEN r
                                      ELSE Err("TypeError", "Failed to parse field",
                                               [field |-> fields[i].name, cause |-> r])
                              ELSE Err("TypeError", "Missing required field",
                                       [field |-> fields[i].name])]
                 IN IF FirstErr(rs) # 0 THEN rs[FirstErr(rs)]
                    ELSE Ok([id \in {fields[i].ident : i \in 1..Len(fields)} |->
                               rs[CHOOSE i \in 1..Len(fields) : fields[i].ident = id].val])
    ELSE IF val.t = "Nil"
    THEN Err("TypeError", "Cannot deserialize struct from nil value", NoDetail)
    ELSE Err("TypeError", "Expected Array or Map for struct", NoDetail)

\* the variant without the guard on the Array's length: a trailing name
\* without value is dropped
named_from_redis_value_any_length(fields, val) ==
    IF val.t = "Array" \/ val.t = "Map"
    THEN LET pairs == ChunkPairs(val)
             keys == [i \in 1..Len(pairs) |-> string_from_redis_value(pairs[i][1])]
         IN IF FirstErr(keys) # 0 THEN keys[FirstErr(keys)]
            ELSE LET got(i) == fields_map_get(pairs, fields[i].name)
                     rs == [i \in 1..Len(fields) |->
                              IF IsSome(got(i))
                              THEN LET r == field_from_redis_value(fields[i].ty, Unwrap(got(i)))
                                   IN IF r.ok THEN r
                                      ELSE Err("TypeError", "Failed to parse field",
                                               [field |-> fields[i].name, cause |-> r])
                              ELSE Err("TypeError", "Missing required field",
                                       [field |-> fields[i].name])]
                 IN IF FirstErr(rs) # 0 THEN rs[FirstErr(rs)]
                    ELSE Ok([id \in {fields[i].ident : i \in 1..Len(fields)} |->
                               rs[CHOOSE i \in 1..Len(fields) : fields[i].ident = id].val])
    ELSE IF val.t = "Nil"
    THEN Err("TypeError", "Cannot deserialize struct from nil value", NoDetail)
    ELSE Err("TypeError", "Expected Array or Map for struct", NoDetail)

\* from_redis_value generated for a named-field record
named_from_redis_value(fields, val) ==
    IF (val.t = "Array" /\ Len(val.items) % 2 = 0) \/ val.t = "Map"
    THEN LET pairs == ChunkPairs(val)
             keys == [i \in 1..Len(pairs) |-> string_from_redis_value(pairs[i][1])]
         IN IF FirstErr(keys) # 0 THEN keys[FirstErr(keys)]
            ELSE LET got(i) == fields_map_get(pairs, fields[i].name)
                     rs == [i \in 1..Len(fields) |->
                              IF IsSome(got(i))
                              THEN LET r == field_from_redis_value(fields[i].ty, Unwrap(got(i)))
                                   IN IF r.ok THEN r
                                      ELSE Err("TypeError", "Failed to parse field",
                                               [field |-> fields[i].name, cause |-> r])
                              ELSE Err("TypeError", "Missing required field",
                                       [field |-> fields[i].name])]
                 IN IF FirstErr(rs) # 0 THEN rs[FirstErr(rs)]
                    ELSE Ok([id \in {fields[i].ident : i \in 1..Len(fields)} |->
                               rs[CHOOSE i \in 1..Len(fields) : fields[i].ident = id].val])
    ELSE IF val.t = "Nil"
    THEN Err("TypeError", "Cannot deserialize struct from nil value", NoDetail)
    ELSE Err("TypeError", "Expected Array or Map for struct", NoDetail)

\* the variant in which elements after the last field are ignored
tuple_from_redis_value_prefix(tys, val) ==
    IF val.t = "Array"
    THEN IF Len(val.items) < Len(tys)
         THEN Err("TypeError", "Array length mismatch",
                  [expected |-> Len(tys), got |-> Len(val.items)])
         ELSE LET rs == [i \in 1..Len(tys) |->
                           LET r == field_from_redis_value(tys[i], val.items[i])
                           IN IF r.ok THEN r
                              ELSE Err("TypeError", "Failed to parse tuple element",
                                       [index |-> i - 1, cause |-> r])]
              IN IF FirstErr(rs) # 0 THEN rs[FirstErr(rs)]
                 ELSE Ok([i \in 1..Len(tys) |-> rs[i].val])
    ELSE IF val.t = "Nil"
    THEN Err("TypeError", "Cannot deserialize tuple struct from nil", NoDetail)
    ELSE Err("TypeError", "Expected Array for tuple struct", NoDetail)

\* from_redis_value generated for a tuple record
tuple_from_redis_value(tys, val) ==
    IF val.t = "Array"
    THEN IF Len(val.items) # Len(tys)
         THEN Err("TypeError", "Array length mismatch",
                  [expected |-> Len(tys), got |-> Len(val.items)])
         ELSE LET rs == [i \in 1..Len(tys) |->
                           LET r == field_from_redis_value(tys[i], val.items[i])
                           IN IF r.ok THEN r
                              ELSE Err("TypeError", "Failed to parse tuple element",
                                       [index |-> i - 1, cause |-> r])]
              IN IF FirstErr(rs) # 0 THEN rs[FirstErr(rs)]
                 ELSE Ok([i \in 1..Len(tys) |-> rs[i].val])
    ELSE IF val.t = "Nil"
    THEN Err("TypeError", "Cannot deserialize tuple struct from nil", NoDetail)
    ELSE Err("TypeError", "Expected Array for tuple struct", NoDetail)

\* from_redis_value generated for a unit record
unit_from_redis_value(val) == Ok(<<>>)

\* the variant in which the source identifiers are listed
RECURSIVE variant_list_idents(_, _)
variant_list_idents(variants, i) ==
    IF i > Len(variants) THEN <<>>
    ELSE (IF i > 1 THEN <<",", " ">> ELSE <<>>)
         \o variants[i].ident \o variant_list_idents(variants, i + 1)

\* variant_names.join(", ")
RECURSIVE variant_list(_, _)
variant_list(variants, i) ==
    IF i > Len(variants) THEN <<>>
    ELSE (IF i > 1 THEN <<",", " ">> ELSE <<>>)
         \o variants[i].name \o variant_list(variants, i + 1)

\* the variant in which the arm declared last wins
parse_str_last(variants, s) ==
    IF \E i \in 1..Len(variants) : variants[i].name = s
    THEN Ok(CHOOSE i \in 1..Len(variants) :
              variants[i].name = s /\ \A j \in (i + 1)..Len(variants) : variants[j].name # s)
    ELSE Err("TypeError", "Unknown enum variant",
             [unknown |-> s, valid |-> variant_list(variants, 1)])

\* parse_string_to_enum: the match arms in declaration order, then the
\* catch-all arm
parse_str(variants, s) ==
    IF \E i \in 1..Len(variants) : variants[i].name = s
    THEN Ok(CHOOSE i \in 1..Len(variants) :
              variants[i].name = s /\ \A j \in 1..(i - 1) : variants[j].name # s)
    ELSE Err("TypeError", "Unknown enum variant",
             [unknown |-> s, valid |-> variant_list(variants, 1)])

\* the variant in which only a binary string is parsed
enum_from_redis_value_bulk_only(variants, val) ==
    CASE val.t = "BulkString" ->
           IF from_utf8_ok(val.b) THEN parse_str(variants, val.b)
           ELSE Err("TypeError", "Invalid UTF-8 in enum value", NoDetail)
      [] val.t = "Nil" ->
           Err("TypeError", "Cannot deserialize enum from nil value", NoDetail)
      [] OTHER ->
           Err("TypeError", "Cannot deserialize enum from Redis value type", NoDetail)

\* from_redis_value generated for an enumeration
enum_from_redis_value(variants, val) ==
    CASE val.t = "BulkString" ->
           IF from_utf8_ok(val.b) THEN parse_str(variants, val.b)
           ELSE Err("TypeError", "Invalid UTF-8 in enum value", NoDetail)
      [] val.t = "SimpleString" -> parse_str(variants, val.b)
      [] val.t = "VerbatimString" -> parse_str(variants, val.b)
      [] val.t = "Nil" ->
           Err("TypeError", "Cannot deserialize enum from nil value", NoDetail)
      [] OTHER ->
           Err("TypeError", "Cannot deserialize enum from Redis value type", NoDetail)

\* the variant in which a field's failure is returned as it is, without
\* the field's name
from_redis_value_bare_cause(impl, val) ==
    LET r == CASE impl.shape = "named" -> named_from_redis_value(impl.fields, val)
               [] impl.shape = "tuple" -> tuple_from_redis_value(impl.tys, val)
               [] impl.shape = "unit"  -> unit_from_redis_value(val)
               [] impl.shape = "enum"  -> enum_from_redis_value(impl.variants, val)
    IN IF ~r.ok /\ r.desc = "Failed to parse field" THEN r.detail.cause ELSE r

from_redis_value(impl, val) ==
    CASE impl.shape = "named" -> named_from_redis_value(impl.fields, val)
      [] impl.shape = "tuple" -> tuple_from_redis_value(impl.tys, val)
      [] impl.shape = "unit"  -> unit_from_redis_value(val)
      [] impl.shape = "enum"  -> enum_from_redis_value(impl.variants, val)

---------------------------------------------------------------------------
(* Scenario 1: the name transformer on its own.                            *)

NameChars == {"a", "b", "A", "B", "_"}

\* Rust identifiers: a letter or `_` first, and not the lone `_`
IsIdentifier(s) == Len(s) >= 1 /\ s # <<"_">> /\ s[1] # "-"

BoundedIdentifiers ==
    {s \in UNION {[1..n -> NameChars] : n \in 1..MaxLen} : IsIdentifier(s)}

\* identifiers the documentation and the unit tests use
DocIdentifiers ==
    { <<"m","y","_","f","i","e","l","d">>,
      <<"m","y","F","i","e","l","d">>,
      <<"M","y","F","i","e","l","d">>,
      <<"M","y","F","i","e","l","d","N","a","m","e">>,
      <<"I","n","P","r","o","g","r","e","s","s">>,
      <<"H","T","T","P","S","e","r","v","e","r">> }

Identifiers == BoundedIdentifiers \cup DocIdentifiers

\* a rule serde accepts and this crate does not
UnknownRule == "SCREAMING_SNAKE_CASE"

RenameAllValues == {None} \cup {Some(r) : r \in ValidRules \cup {UnknownRule}}

RenameLiterals == { <<>>, <<"i","d">>, <<"s","k","i","p","_","c","o","u","n","t">> }

NameFieldTokens == { <<>> } \cup {TokRename(lit) : lit \in RenameLiterals}

NoType == [shape |-> "none"]
NoImpl == [status |-> "none"]
NoResult == [ok |-> FALSE, kind |-> "none"]
NoValue == [t |-> "none"]

InitName ==
    /\ pc = "start"
    /\ name \in Identifiers
    /\ rename_all \in RenameAllValues
    /\ field_tokens \in NameFieldTokens
    /\ wire = <<>>
    /\ wire2 = <<>>
    /\ decl = NoType
    /\ to_impl = NoImpl
    /\ from_impl = NoImpl
    /\ self = <<>>
    /\ out = <<>>
    /\ v = NoValue
    /\ count = 0
    /\ result = NoResult

\* data_enum.rs calls transform_variant_name once per variant
TransformVariant ==
    /\ pc = "start"
    /\ wire' = transform_variant_name(name, rename_all)
    /\ pc' = IF wire' = Panic THEN "panic" ELSE "variant"
    /\ UNCHANGED <<name, rename_all, field_tokens, wire2>>
    /\ UNCHANGED typeVars

\* data_struct.rs calls transform_field_name once per non-skipped field
TransformField ==
    /\ pc = "start"
    /\ wire' = transform_field_name(name, rename_all,
                                    parse_field_attributes(field_tokens).rename)
    /\ pc' = IF wire' = Panic THEN "panic" ELSE "field"
    /\ UNCHANGED <<name, rename_all, field_tokens, wire2>>
    /\ UNCHANGED typeVars

\* the same rule applied to a string it has already converted
Reapply ==
    /\ pc = "variant"
    /\ IsSome(rename_all)
    /\ wire2' = transform_variant_name(wire, rename_all)
    /\ pc' = "reapplied"
    /\ UNCHANGED <<name, rename_all, field_tokens, wire>>
    /\ UNCHANGED typeVars

NextName == TransformVariant \/ TransformField \/ Reapply

SpecName == InitName /\ [][NextName]_vars

---------------------------------------------------------------------------
(* Claims about the name transformer *)

\* Word splitting as the specification words it: a new word starts after
\* every `_` and `-` and at every lower-to-upper transition; the first
\* letter of a word is upper-cased, its other letters lower-cased.
RECURSIVE RefPascalLoop(_, _, _, _)
RefPascalLoop(s, i, word_start, prev_is_lower) ==
    IF i > Len(s) THEN <<>>
    ELSE IF s[i] = "_" \/ s[i] = "-" THEN RefPascalLoop(s, i + 1, TRUE, FALSE)
    ELSE IF word_start \/ (is_uppercase(s[i]) /\ prev_is_lower)
         THEN <<to_uppercase(s[i])>>
              \o RefPascalLoop(s, i + 1, FALSE, is_lowercase(s[i]))
         ELSE <<to_lowercase(s[i])>>
              \o RefPascalLoop(s, i + 1, FALSE, is_lowercase(s[i]))

RefPascal(s) == RefPascalLoop(s, 1, TRUE, FALSE)

NoAdjacentCapitals(s) ==
    \A i \in 1..(Len(s) - 1) : ~(is_uppercase(s[i]) /\ is_uppercase(s[i + 1]))

RefCamel(s) ==
    IF RefPascal(s) = <<>> THEN <<>>
    ELSE <<to_lowercase(Head(RefPascal(s)))>> \o Tail(RefPascal(s))

\* C6: PascalCase and camelCase split an identifier into words at `_`, at
\* `-` and at every lower-to-upper transition, so the result is the
\* capitalised words joined (camelCase: first letter lower-cased), e.g.
\* PascalCase("myField") = "MyField" and camelCase("MyField") = "myField".
\* (Stated for identifiers without two adjacent capitals, where a word's
\* letters after its first are lower-case already.)
C6_PascalCamelSplitWords ==
    /\ (pc = "variant" /\ rename_all = Some("PascalCase") /\ NoAdjacentCapitals(name))
          => wire = RefPascal(name)
    /\ (pc = "variant" /\ rename_all = Some("camelCase") /\ NoAdjacentCapitals(name))
          => wire = RefCamel(name)

\* C7: applying a rule to a string the same rule produced changes nothing,
\* for each of the six rules.
C7_TransformIdempotent ==
    (pc = "reapplied" /\ Unwrap(rename_all) \in ValidRules) => wire2 = wire

\* C9: the wire string of a field or variant is never empty, whatever the
\* identifier, the rename_all rule and the rename override.
C9_WireMappingNonEmpty ==
    pc \in {"variant", "field"} => Len(wire) >= 1

---------------------------------------------------------------------------
(* Scenario 2: a type is declared, the two derive macros run on it, and    *)
(* the generated procedures encode an instance and decode wire values.     *)

FieldIdents == << <<"i","d">>, <<"t","a","g">>, <<"e","x">>, <<"z">> >>
VariantIdents == << <<"R","e","d">>, <<"I","n","P">>, <<"r","e","d">>, <<"G">> >>

FieldTokens == { <<>>, TokSkip, TokRename(<<"i","d">>) }
FieldTypes == {"String", "Option", "Vec", "Inner"}
RecordRenameAll == {None, Some("UPPERCASE"), Some("snake_case"), Some(UnknownRule)}

\* a rename literal that contains the letters of a directive
SkipCount == <<"s","k","i","p","_","c","o","u","n","t">>

\* the directives and type of one named field
NamedFieldKinds ==
    (FieldTokens \X FieldTypes) \cup { <<TokRename(SkipCount), "String">> }

NamedFieldLists(n) ==
    { [i \in 1..n |-> [ident |-> FieldIdents[i], tokens |-> f[i][1], ty |-> f[i][2]]] :
        f \in [1..n -> NamedFieldKinds] }

TupleFieldLists(n) ==
    { [i \in 1..n |-> [ident |-> <<>>, tokens |-> <<>>, ty |-> f[i]]] :
        f \in [1..n -> FieldTypes] }

NamedDecls ==
    { [shape |-> "named", rename_all |-> r, fields |-> fs] :
        r \in RecordRenameAll, fs \in UNION {NamedFieldLists(n) : n \in 0..MaxFields} }

TupleDecls ==
    { [shape |-> "tuple", rename_all |-> r, fields |-> fs] :
        r \in RecordRenameAll, fs \in UNION {TupleFieldLists(n) : n \in 0..MaxFields} }

UnitDecls ==
    { [shape |-> "unit", rename_all |-> r, fields |-> <<>>] : r \in RecordRenameAll }

EnumDecls ==
    { [shape |-> "enum", rename_all |-> r,
       variants |-> [i \in 1..n |-> [ident |-> VariantIdents[i], unit |-> u[i]]]] :
        r \in RenameAllValues, n \in 0..MaxVariants, u \in [1..MaxVariants -> BOOLEAN] }

Decls == NamedDecls \cup TupleDecls \cup UnitDecls \cup EnumDecls

InnerValue == [id \in {<<"x">>, <<"y">>} |-> IF id = <<"x">> THEN <<"p">> ELSE <<"q">>]

Values(ty) ==
    CASE ty = "String" -> { <<"v">> }
      [] ty = "Option" -> { None, Some(<<"v">>) }
      [] ty = "Vec"    -> { <<>>, << <<"v">> >>, << <<"v">>, <<"w">> >> }
      [] ty = "Inner"  -> { InnerValue }

RECURSIVE ValueSeqs(_, _)
ValueSeqs(fields, n) ==
    IF n = 0 THEN { <<>> }
    ELSE { Append(s, val) : s \in ValueSeqs(fields, n - 1), val \in Values(fields[n].ty) }

Instances(d) ==
    CASE d.shape = "named" ->
           { [id \in {d.fields[i].ident : i \in 1..Len(d.fields)} |->
                s[CHOOSE i \in 1..Len(d.fields) : d.fields[i].ident = id]] :
             s \in ValueSeqs(d.fields, Len(d.fields)) }
      [] d.shape = "tuple" -> ValueSeqs(d.fields, Len(d.fields))
      [] d.shape = "unit"  -> { <<>> }
      [] d.shape = "enum"  -> IF Len(d.variants) = 0 THEN {0} ELSE 1..Len(d.variants)

\* the wire value a field value is stored as
RECURSIVE ValueFor(_, _)
ValueFor(ty, val) ==
    CASE ty = "String" -> BulkString(val)
      [] ty = "Option" -> IF IsSome(val) THEN BulkString(Unwrap(val)) ELSE Nil
      [] ty = "Vec"    -> Array([i \in 1..Len(val) |-> BulkString(val[i])])
      [] ty = "Inner"  ->
           Map([i \in 1..Len(InnerDecl.fields) |->
                  <<BulkString(InnerDecl.fields[i].ident),
                    ValueFor(InnerDecl.fields[i].ty, val[InnerDecl.fields[i].ident])>>])

\* the name/value pairs for the fields whose index is in P, in declaration order
RECURSIVE PairsFor(_, _, _, _)
PairsFor(fields, inst, P, i) ==
    IF i > Len(fields) THEN <<>>
    ELSE (IF i \in P
          THEN << <<BulkString(fields[i].name), ValueFor(fields[i].ty, inst[fields[i].ident])>> >>
          ELSE <<>>)
         \o PairsFor(fields, inst, P, i + 1)

RECURSIVE Flatten(_)
Flatten(pairs) ==
    IF pairs = <<>> THEN <<>>
    ELSE <<Head(pairs)[1], Head(pairs)[2]>> \o Flatten(Tail(pairs))

ScalarWireValues ==
    { Nil, IntValue(7), BulkString(<<"v">>), SimpleString(<<"v">>),
      Array(<<BulkString(<<"v">>)>>) }

BulkStrings(args) == [i \in 1..Len(args) |-> BulkString(args[i])]

\* a pair whose name no model field has
UnknownPair == <<BulkString(<<"z","z">>), BulkString(<<"v">>)>>

\* pair sequences in which a name occurs twice, after or before the pair
\* that carries the field's own value, in which a key is no string, or in
\* which the last or only value under a name is Nil, which carry an undeclared
\* name, or which list the fields in reverse order
ExtraPairs(fields, inst) ==
    LET full == PairsFor(fields, inst, 1..Len(fields), 1)
        dup(i) == <<BulkString(fields[i].name), BulkString(<<"w">>)>>
    IN { full \o <<dup(i)>> : i \in 1..Len(fields) }
       \cup { <<dup(i)>> \o full : i \in 1..Len(fields) }
       \cup { full \o << <<BulkString(<<InvalidByte>>), BulkString(<<"v">>)>> >> }
       \cup { full \o << <<BulkString(fields[i].name), Nil>> >> : i \in 1..Len(fields) }
       \cup { << <<BulkString(fields[i].name), Nil>> >> : i \in 1..Len(fields) }
       \cup { full \o <<UnknownPair>>, <<UnknownPair>> \o full,
               [k \in 1..Len(full) |-> full[Len(full) + 1 - k]] }

\* Arrays that hold one element per field, in declaration order and
\* without names: the field's own value, or a string that is the wire name
\* of the first or of the last field
PositionalArrays(fields, inst) ==
    LET n == Len(fields)
        Choice(i) == { ValueFor(fields[i].ty, inst[fields[i].ident]),
                       BulkString(fields[1].name), BulkString(fields[n].name) }
    IN { Array(c) : c \in { c \in [1..n -> UNION {Choice(i) : i \in 1..n}] :
                               \A i \in 1..n : c[i] \in Choice(i) } }

WireValues(impl, inst) ==
    CASE impl.shape = "named" ->
           ScalarWireValues
           \cup { Map(PairsFor(impl.fields, inst, P, 1)) : P \in SUBSET (1..Len(impl.fields)) }
           \cup { Array(Flatten(PairsFor(impl.fields, inst, P, 1))) :
                    P \in SUBSET (1..Len(impl.fields)) }
           \cup UNION { { Map(ps), Array(Flatten(ps)) } : ps \in ExtraPairs(impl.fields, inst) }
           \cup PositionalArrays(impl.fields, inst)
      [] impl.shape = "tuple" ->
           ScalarWireValues
           \cup { Array([i \in 1..n |-> ValueFor(impl.tys[i], inst[i])]) : n \in 0..Len(impl.tys) }
           \cup { Array([i \in 1..Len(impl.tys) |-> ValueFor(impl.tys[i], inst[i])]
                         \o <<BulkString(<<"v">>)>>),
                   Map(<< <<BulkString(<<"v">>), BulkString(<<"v">>)>> >>) }
      [] impl.shape = "unit" -> ScalarWireValues
      [] impl.shape = "enum" ->
           ScalarWireValues
           \cup { BulkString(impl.variants[i].name) : i \in 1..Len(impl.variants) }
           \cup { SimpleString(impl.variants[i].name) : i \in 1..Len(impl.variants) }
           \cup { VerbatimString(impl.variants[i].name) : i \in 1..Len(impl.variants) }
           \cup { BulkString(impl.variants[i].ident) : i \in 1..Len(impl.variants) }
           \cup { Array(<<BulkString(impl.variants[i].name)>>) : i \in 1..Len(impl.variants) }
           \cup { Map(<< <<BulkString(impl.variants[i].name),
                            BulkString(impl.variants[i].name)>> >>) :
                    i \in 1..Len(impl.variants) }

Init ==
    /\ pc = "declared"
    /\ decl \in Decls
    /\ self \in Instances(decl)
    /\ to_impl = NoImpl
    /\ from_impl = NoImpl
    /\ out = <<>>
    /\ v = NoValue
    /\ count = 0
    /\ result = NoResult
    /\ name = <<>>
    /\ rename_all = None
    /\ field_tokens = <<>>
    /\ wire = <<>>
    /\ wire2 = <<>>

\* #[derive(ToRedisArgs)]
DeriveToRedisArgs ==
    /\ pc = "declared"
    /\ to_impl.status = "none"
    /\ to_impl' = to_redis_args(decl)
    /\ UNCHANGED <<pc, decl, from_impl, self, out, v, result, count>>
    /\ UNCHANGED nameVars

\* #[derive(FromRedisValue)]
DeriveFromRedisValue ==
    /\ pc = "declared"
    /\ from_impl.status = "none"
    /\ from_impl' = from_redis_value_macro(decl)
    /\ UNCHANGED <<pc, decl, to_impl, self, out, v, result, count>>
    /\ UNCHANGED nameVars

\* self.write_redis_args(&mut out) on an empty sink
Encode ==
    /\ pc = "declared"
    /\ to_impl.status = "ok"
    /\ ~(decl.shape = "enum" /\ Len(decl.variants) = 0)
    /\ out' = write_redis_args(to_impl, self)
    /\ pc' = "encoded"
    /\ UNCHANGED <<decl, to_impl, from_impl, self, v, result, count>>
    /\ UNCHANGED nameVars

\* self.num_of_args(), compared with what write_redis_args wrote
NumOfArgs ==
    /\ pc = "encoded"
    /\ count' = num_of_args(to_impl, self)
    /\ pc' = "counted"
    /\ UNCHANGED <<decl, to_impl, from_impl, self, out, v, result>>
    /\ UNCHANGED nameVars

\* the written arguments come back from the store: a hash as the Array of
\* its name/value binary strings, an enumeration as one binary string
ReadBack ==
    /\ pc = "encoded"
    /\ from_impl.status = "ok"
    /\ v' = IF to_impl.shape = "enum" THEN BulkString(out[1])
            ELSE Array(BulkStrings(out))
    /\ pc' = "replied"
    /\ UNCHANGED <<decl, to_impl, from_impl, self, out, count, result>>
    /\ UNCHANGED nameVars

\* some other wire value arrives
Receive ==
    /\ pc = "declared"
    /\ from_impl.status = "ok"
    /\ to_impl.status = "none"
    /\ ~(decl.shape = "enum" /\ Len(decl.variants) = 0)
    /\ v' \in WireValues(from_impl, self)
    /\ pc' = "received"
    /\ UNCHANGED <<decl, to_impl, from_impl, self, out, count, result>>
    /\ UNCHANGED nameVars

\* FromRedisValue::from_redis_value(&v)
Decode ==
    /\ pc \in {"replied", "received"}
    /\ result' = from_redis_value(from_impl, v)
    /\ pc' = IF pc = "replied" THEN "round_trip" ELSE "decoded"
    /\ UNCHANGED <<decl, to_impl, from_impl, self, out, v, count>>
    /\ UNCHANGED nameVars

Next ==
    \/ DeriveToRedisArgs
    \/ DeriveFromRedisValue
    \/ Encode
    \/ NumOfArgs
    \/ ReadBack
    \/ Receive
    \/ Decode

Spec == Init /\ [][Next]_vars

\* both scenarios side by side
InitAll == InitName \/ Init
NextAll == NextName \/ Next
SpecAll == InitAll /\ [][NextAll]_vars

---------------------------------------------------------------------------
(* Claims about records *)

IsRecord(d) == d.shape \in {"named", "tuple", "unit"}
Skipped(f) == parse_field_attributes(f.tokens).skip
DeclaredIdents(d) == {d.fields[i].ident : i \in 1..Len(d.fields)}
DistinctWireNames(fields) ==
    \A i, j \in 1..Len(fields) : i # j => fields[i].name # fields[j].name

\* v has one of the two shapes a named-field record is decoded from
PairShaped(val) ==
    \/ val.t = "Map"
    \/ (val.t = "Array" /\ Len(val.items) % 2 = 0)

WireKeys(val) == {ChunkPairs(val)[i][1].b : i \in 1..Len(ChunkPairs(val))}

\* C1: a named-field record decoded from a Map or even-length Array that
\* lacks the wire name of an Option field, all other fields being present,
\* decodes successfully with None in that field.
C1_MissingOptionalDecodesAbsent ==
    (/\ pc = "decoded"
     /\ from_impl.shape = "named"
     /\ PairShaped(v)
     /\ DistinctWireNames(from_impl.fields)
     /\ \E i \in 1..Len(from_impl.fields) :
           from_impl.fields[i].ty = "Option" /\ from_impl.fields[i].name \notin WireKeys(v)
     /\ \A i \in 1..Len(from_impl.fields) :
           from_impl.fields[i].ty # "Option" => from_impl.fields[i].name \in WireKeys(v))
    => /\ result.ok
       /\ \A i \in 1..Len(from_impl.fields) :
             (from_impl.fields[i].ty = "Option" /\ from_impl.fields[i].name \notin WireKeys(v))
                => result.val[from_impl.fields[i].ident] = None

\* C2: for a named-field record without skipped fields whose fields are
\* scalars, optionals or collections, decoding the Array of the arguments
\* that encode wrote gives back the encoded instance.
C2_NamedRoundTrip ==
    (/\ pc = "round_trip"
     /\ decl.shape = "named"
     /\ \A i \in 1..Len(decl.fields) : ~Skipped(decl.fields[i]) /\ decl.fields[i].ty # "Inner"
     /\ DistinctWireNames(to_impl.fields))
    => (result.ok /\ result.val = self)

\* C3: encoding a zero-field record, in unit, empty-brace or empty-tuple
\* form, writes exactly one argument, the empty byte string.
C3_ZeroFieldWritesEmptyMarker ==
    (pc = "encoded" /\ IsRecord(decl) /\ Len(decl.fields) = 0)
    => out = << <<>> >>

\* the encoding in which a field whose value encodes to no argument
\* leaves no trace
RECURSIVE PairsOnlyEncoding(_, _, _)
PairsOnlyEncoding(fields, inst, i) ==
    IF i > Len(fields) THEN <<>>
    ELSE (IF write_field_args(fields[i].ty, inst[fields[i].ident]) = <<>> THEN <<>>
          ELSE <<fields[i].name>> \o write_field_args(fields[i].ty, inst[fields[i].ident]))
         \o PairsOnlyEncoding(fields, inst, i + 1)

\* C4: in the encoding of a named-field record a non-skipped field whose
\* value encodes to zero arguments contributes neither its wire name nor a
\* value.
C4_EmptyFieldContributesNothing ==
    (pc = "encoded" /\ decl.shape = "named")
    => out = PairsOnlyEncoding(to_impl.fields, self, 1)

\* name, value, name, value of a nested record, names unprefixed
UnprefixedPairs(val) == << <<"x">>, val[<<"x">>], <<"y">>, val[<<"y">>] >>

\* C5: a field holding a named-field record is never encoded as the
\* parent's wire name followed by the nested record's unprefixed
\* name/value pairs.
C5_NestedNeverUnprefixed ==
    (pc = "encoded" /\ decl.shape = "named")
    => \A i \in 1..Len(to_impl.fields) :
          to_impl.fields[i].ty = "Inner"
             => ~str_contains(out, <<to_impl.fields[i].name>>
                                   \o UnprefixedPairs(self[to_impl.fields[i].ident]))

\* C8: a type carrying an unrecognized rename_all value gets no encode and
\* no decode procedure, whatever its shape and its field directives.
C8_InvalidRuleAbortsGeneration ==
    (IsSome(decl.rename_all) /\ Unwrap(decl.rename_all) \notin ValidRules)
    => (to_impl.status # "ok" /\ from_impl.status # "ok")

\* C10: a field marked skip is left out in both directions: encode writes
\* neither its wire name nor its value, and decode of a wire value that
\* carries only the other fields produces a complete instance.
C10_SkipBothDirections ==
    /\ (pc = "encoded" /\ decl.shape = "named" /\ DistinctWireNames(to_impl.fields))
       => \A i \in 1..Len(decl.fields) :
             Skipped(decl.fields[i])
                => \A k \in 1..Len(out) :
                      out[k] # transform_field_name(decl.fields[i].ident, decl.rename_all,
                                  parse_field_attributes(decl.fields[i].tokens).rename)
    /\ (/\ pc = "decoded"
        /\ from_impl.shape = "named"
        /\ DistinctWireNames(from_impl.fields)
        /\ \E i \in 1..Len(decl.fields) : Skipped(decl.fields[i])
        /\ v = Map(PairsFor(from_impl.fields, self, 1..Len(from_impl.fields), 1)))
       => (result.ok /\ DOMAIN result.val = DeclaredIdents(decl))

---------------------------------------------------------------------------
(* Claims about precedence, enumerations, tuple records and wire shapes *)

\* the k-th name/value pair a wire value carries
NumPairs(val) == IF val.t = "Map" THEN Len(val.pairs) ELSE Len(val.items) \div 2
PairAt(val, k) ==
    IF val.t = "Map" THEN val.pairs[k] ELSE <<val.items[2 * k - 1], val.items[2 * k]>>

\* position of the last pair of val whose name is key, 0 when there is none
LastPairUnder(val, key) ==
    IF \E k \in 1..NumPairs(val) : PairAt(val, k)[1].b = key
    THEN CHOOSE k \in 1..NumPairs(val) :
            /\ PairAt(val, k)[1].b = key
            /\ \A j \in (k + 1)..NumPairs(val) : PairAt(val, j)[1].b # key
    ELSE 0

Id == <<"i","d">>

\* the non-skipped fields that carry rename = "id"
RenamedToId(d) ==
    {i \in 1..Len(d.fields) : d.fields[i].tokens = TokRename(Id)}

\* number of arguments equal to s
Occurrences(args, s) == Cardinality({k \in 1..Len(args) : args[k] = s})

\* the non-skipped fields whose wire name has to be "id"
ExpectedUnderId(d) ==
    {i \in 1..Len(d.fields) :
        /\ ~Skipped(d.fields[i])
        /\ \/ d.fields[i].tokens = TokRename(Id)
           \/ (d.fields[i].tokens = <<>> /\ d.fields[i].ident = Id
               /\ d.rename_all \in {None, Some("snake_case")})}

\* C11: the field-name transformer returns the override verbatim whenever
\* one is present, whatever the rename_all directive, returns the
\* identifier unchanged when there is neither override nor directive, and
\* the directive's conversion of the identifier otherwise; a field with
\* rename = "id" under a rename_all directive (snake_case, UPPERCASE) is
\* written under "id" by encode and looked up under "id" by decode.
C11_OverridePrecedence ==
    /\ [][TransformField =>
            /\ \A lit \in RenameLiterals :
                  field_tokens = TokRename(lit) => (wire' = lit /\ pc' = "field")
            /\ (field_tokens = <<>> /\ rename_all = None)
                  => (wire' = name /\ pc' = "field")
            /\ (field_tokens = <<>> /\ IsSome(rename_all))
                  => wire' = transform_variant_name(name, rename_all)]_vars
    /\ [](/\ (/\ pc = "encoded"
              /\ decl.shape = "named"
              /\ decl.rename_all \in {Some("snake_case"), Some("UPPERCASE")})
             => Occurrences(out, Id) = Cardinality(ExpectedUnderId(decl))
          /\ (/\ pc = "decoded"
              /\ decl.shape = "named"
              /\ decl.rename_all \in {Some("snake_case"), Some("UPPERCASE")}
              /\ PairShaped(v)
              /\ RenamedToId(decl) # {})
             => /\ result.ok => Id \in WireKeys(v)
                /\ (result.ok /\ DistinctWireNames(from_impl.fields))
                      => \A i \in RenamedToId(decl) :
                            Ok(result.val[decl.fields[i].ident])
                               = field_from_redis_value(
                                    decl.fields[i].ty, PairAt(v, LastPairUnder(v, Id))[2]))

C11_Witness ==
    /\ pc = "decoded"
    /\ decl.shape = "named"
    /\ decl.rename_all = Some("snake_case")
    /\ Len(decl.fields) = 2
    /\ decl.fields[2].tokens = TokRename(Id)
    /\ decl.fields[2].ty = "String"
    /\ v.t = "Map"
    /\ Id \in WireKeys(v)
    /\ result.ok
    /\ result.val[decl.fields[2].ident] = <<"v">>

DistinctVariantNames(variants) ==
    \A i, j \in 1..Len(variants) : i # j => variants[i].name # variants[j].name

\* C12: for an enumeration of unit variants whose wire names are pairwise
\* distinct, under every rename_all rule or none, decoding the binary
\* string that encode wrote for a variant gives that variant back; the
\* encoder and the decoder hold the same wire name for each variant.
C12_EnumRoundTrip ==
    /\ (decl.shape = "enum" /\ to_impl.status = "ok" /\ from_impl.status = "ok")
          => \A i \in 1..Len(decl.variants) :
                to_impl.variants[i].name = from_impl.variants[i].name
    /\ (pc = "round_trip" /\ decl.shape = "enum" /\ DistinctVariantNames(to_impl.variants))
          => (v = BulkString(out[1]) /\ result.ok /\ result.val = self)

C12_Witness ==
    /\ pc = "round_trip"
    /\ decl.shape = "enum"
    /\ decl.rename_all = Some("snake_case")
    /\ self = 2
    /\ out = << <<"i","n","_","p">> >>
    /\ result.ok
    /\ result.val = 2

StringShapes == {"BulkString", "SimpleString", "VerbatimString"}

\* the wire names of the enumeration
ValidTokens(variants) == {variants[i].name : i \in 1..Len(variants)}

\* C13: an enumeration is decoded from a valid token in the same way
\* whether the token arrives as a binary, simple or verbatim string: the
\* result is the variant carrying that wire name; a Nil, integer, Array or
\* Map value fails with a TypeError whatever it contains.
C13_EnumWireShapes ==
    (pc = "decoded" /\ from_impl.shape = "enum")
    => /\ (v.t \in StringShapes /\ v.b \in ValidTokens(from_impl.variants))
             => /\ result.ok
                /\ from_impl.variants[result.val].name = v.b
                /\ \A j \in 1..(result.val - 1) : from_impl.variants[j].name # v.b
       /\ v.t \in {"Nil", "Int", "Array", "Map"}
             => (~result.ok /\ result.kind = "TypeError")

C13_Witness ==
    /\ pc = "decoded"
    /\ from_impl.shape = "enum"
    /\ decl.rename_all = Some("kebab-case")
    /\ v = VerbatimString(<<"i","n","-","p">>)
    /\ result = Ok(2)

\* the wire names of the first n variants of d, each followed by ", "
\* except the last of the enumeration
RECURSIVE JoinedWireNames(_, _)
JoinedWireNames(d, n) ==
    IF n = 0 THEN <<>>
    ELSE JoinedWireNames(d, n - 1)
         \o (IF n > 1 THEN <<",", " ">> ELSE <<>>)
         \o transform_variant_name(d.variants[n].ident, d.rename_all)

\* C14: decoding a string token that is the wire name of no variant fails
\* with the unknown-variant error, which names the token and lists every
\* wire name of the enumeration (the transformed names, not the source
\* identifiers) joined in declaration order.
C14_UnknownVariantListsWireNames ==
    (/\ pc = "decoded"
     /\ from_impl.shape = "enum"
     /\ v.t \in StringShapes
     /\ v.b \notin ValidTokens(from_impl.variants))
    => /\ ~result.ok
       /\ result.kind = "TypeError"
       /\ result.desc = "Unknown enum variant"
       /\ result.detail.unknown = v.b
       /\ result.detail.valid = JoinedWireNames(decl, Len(decl.variants))
       /\ \A i \in 1..Len(decl.variants) :
             str_contains(result.detail.valid,
                          transform_variant_name(decl.variants[i].ident, decl.rename_all))

C14_Witness ==
    /\ pc = "decoded"
    /\ from_impl.shape = "enum"
    /\ decl.rename_all = Some("lowercase")
    /\ Len(decl.variants) = 2
    /\ v = BulkString(<<"R","e","d">>)
    /\ ~result.ok
    /\ result.desc = "Unknown enum variant"
    /\ result.detail.valid = <<"r","e","d",","," ","i","n","p">>

\* C15: a tuple record with n declared fields is decoded only from an
\* Array of exactly n elements: an Array of another length, shorter or
\* longer, fails with the length-mismatch error carrying n and the actual
\* length, and Nil and every other non-Array value fail too.
C15_TupleArity ==
    (pc \in {"decoded", "round_trip"} /\ decl.shape = "tuple")
    => /\ result.ok => (v.t = "Array" /\ Len(v.items) = Len(decl.fields))
       /\ (v.t = "Array" /\ Len(v.items) # Len(decl.fields))
             => /\ ~result.ok
                /\ result.kind = "TypeError"
                /\ result.desc = "Array length mismatch"
                /\ result.detail = [expected |-> Len(decl.fields), got |-> Len(v.items)]
       /\ v.t # "Array" => (~result.ok /\ result.kind = "TypeError")

C15_Witness ==
    /\ pc = "decoded"
    /\ decl.shape = "tuple"
    /\ Len(decl.fields) = 2
    /\ v.t = "Array"
    /\ Len(v.items) = 3
    /\ ~result.ok
    /\ result.detail = [expected |-> 2, got |-> 3]

\* C16: a named-field record is decoded in the same way from a Map and
\* from the even-length Array listing the same pairs as name, value, name,
\* value: the same instance or the same failure; when a name occurs in
\* several pairs, the field receives the value of the last of them.
C16_MapArrayAgree ==
    (pc = "decoded" /\ from_impl.shape = "named")
    => /\ v.t = "Map"
             => result = from_redis_value(from_impl, Array(Flatten(v.pairs)))
       /\ (v.t = "Array" /\ Len(v.items) % 2 = 0)
             => result = from_redis_value(from_impl,
                            Map([k \in 1..NumPairs(v) |-> PairAt(v, k)]))
       /\ (PairShaped(v) /\ result.ok)
             => \A i \in 1..Len(from_impl.fields) :
                   LastPairUnder(v, from_impl.fields[i].name) # 0
                      => Ok(result.val[from_impl.fields[i].ident])
                            = field_from_redis_value(
                                 from_impl.fields[i].ty,
                                 PairAt(v, LastPairUnder(v, from_impl.fields[i].name))[2])

C16_Witness ==
    /\ pc = "decoded"
    /\ from_impl.shape = "named"
    /\ Len(from_impl.fields) = 1
    /\ from_impl.fields[1].ty = "String"
    /\ v = Array(<<BulkString(from_impl.fields[1].name), BulkString(<<"v">>),
                   BulkString(from_impl.fields[1].name), BulkString(<<"w">>)>>)
    /\ result.ok
    /\ result.val[from_impl.fields[1].ident] = <<"w">>

\* C17: decoding a named-field record from a wire value that is neither a
\* Map nor an Array of even length (a string, an integer, Nil, an Array of
\* odd length) fails with a TypeError; no instance is produced.
C17_NamedRejectsOtherShapes ==
    (/\ pc \in {"decoded", "round_trip"}
     /\ from_impl.shape = "named"
     /\ v.t # "Map"
     /\ ~(v.t = "Array" /\ Len(v.items) % 2 = 0))
    => (~result.ok /\ result.kind = "TypeError")

C17_Witness ==
    /\ pc = "decoded"
    /\ from_impl.shape = "named"
    /\ from_impl.fields = <<>>
    /\ v = Array(<<BulkString(<<"v">>)>>)
    /\ ~result.ok
    /\ result.desc = "Expected Array or Map for struct"

\* a field that is neither optional nor a collection
Required(f) == f.ty \in {"String", "Inner"}

\* v carries no pair under the field's wire name
Lacks(val, f) == LastPairUnder(val, f.name) = 0

\* nothing else is wrong with v: every key is a string, every field that
\* has a pair decodes from it, and every collection field has a pair
OtherwiseDecodable(fields, val) ==
    /\ \A k \in 1..NumPairs(val) :
          PairAt(val, k)[1].t = "BulkString" /\ from_utf8_ok(PairAt(val, k)[1].b)
    /\ \A i \in 1..Len(fields) :
          /\ ~Lacks(val, fields[i])
                => field_from_redis_value(
                      fields[i].ty, PairAt(val, LastPairUnder(val, fields[i].name))[2]).ok
          /\ fields[i].ty = "Vec" => ~Lacks(val, fields[i])

\* C18: decoding a named-field record from a Map or even-length Array
\* that lacks the wire name of a required field (neither optional nor a
\* collection) fails with the missing-field error naming a required field
\* that the value lacks; no instance is returned.
C18_MissingRequiredField ==
    (/\ pc = "decoded"
     /\ from_impl.shape = "named"
     /\ PairShaped(v)
     /\ OtherwiseDecodable(from_impl.fields, v)
     /\ \E i \in 1..Len(from_impl.fields) :
           Required(from_impl.fields[i]) /\ Lacks(v, from_impl.fields[i]))
    => /\ ~result.ok
       /\ result.kind = "TypeError"
       /\ result.desc = "Missing required field"
       /\ \E i \in 1..Len(from_impl.fields) :
             /\ Required(from_impl.fields[i])
             /\ Lacks(v, from_impl.fields[i])
             /\ result.detail = [field |-> from_impl.fields[i].name]

\* the same, for values that lack no optional field either
C18_AllOptionalsPresent ==
    (/\ pc = "decoded"
     /\ from_impl.shape = "named"
     /\ PairShaped(v)
     /\ OtherwiseDecodable(from_impl.fields, v)
     /\ \A i \in 1..Len(from_impl.fields) :
           from_impl.fields[i].ty = "Option" => ~Lacks(v, from_impl.fields[i])
     /\ \E i \in 1..Len(from_impl.fields) :
           Required(from_impl.fields[i]) /\ Lacks(v, from_impl.fields[i]))
    => /\ ~result.ok
       /\ result.desc = "Missing required field"
       /\ \E i \in 1..Len(from_impl.fields) :
             /\ Required(from_impl.fields[i])
             /\ Lacks(v, from_impl.fields[i])
             /\ result.detail = [field |-> from_impl.fields[i].name]

\* an underscore goes before the i-th character of s
SeparatorBefore(s, i) ==
    /\ is_uppercase(s[i])
    /\ i > 1
    /\ \/ is_lowercase(s[i - 1])
       \/ (i < Len(s) /\ is_lowercase(s[i + 1]))

\* the reference conversion of the first n characters of s
RECURSIVE RefSnakePrefix(_, _)
RefSnakePrefix(s, n) ==
    IF n = 0 THEN <<>>
    ELSE RefSnakePrefix(s, n - 1)
         \o (IF SeparatorBefore(s, n) THEN <<"_">> ELSE <<>>)
         \o <<to_lowercase(s[n])>>

RefSnake(s) == RefSnakePrefix(s, Len(s))
RefKebab(s) == [i \in 1..Len(RefSnake(s)) |->
                  IF RefSnake(s)[i] = "_" THEN "-" ELSE RefSnake(s)[i]]

HTTPServer == <<"H","T","T","P","S","e","r","v","e","r">>
MyFieldName == <<"M","y","F","i","e","l","d","N","a","m","e">>

\* the transformer has run on `name` without a rename override
Transformed == pc = "variant" \/ (pc = "field" /\ field_tokens = <<>>)

\* C19: snake_case lower-cases every character and puts one `_` before
\* each uppercase character that is not the first and that follows a
\* lowercase character or is followed by one, so a run of capitals is split
\* once ("HTTPServer" -> "http_server", "MyFieldName" -> "my_field_name");
\* kebab-case is snake_case with every `_` replaced by `-`.
C19_SnakeKebabReference ==
    /\ (Transformed /\ rename_all = Some("snake_case"))
          => /\ wire = RefSnake(name)
             /\ name = HTTPServer
                   => wire = <<"h","t","t","p","_","s","e","r","v","e","r">>
             /\ name = MyFieldName
                   => wire = <<"m","y","_","f","i","e","l","d","_","n","a","m","e">>
    /\ (Transformed /\ rename_all = Some("kebab-case"))
          => /\ wire = RefKebab(name)
             /\ Len(wire) = Len(RefSnake(name))
             /\ \A i \in 1..Len(wire) : wire[i] # "_"

C19_Witness ==
    /\ pc = "variant"
    /\ rename_all = Some("snake_case")
    /\ name = HTTPServer
    /\ wire = <<"h","t","t","p","_","s","e","r","v","e","r">>

my_field == <<"m","y","_","f","i","e","l","d">>
MyField == <<"M","y","F","i","e","l","d">>
InProgress == <<"I","n","P","r","o","g","r","e","s","s">>

\* C20: the documented conversions: PascalCase("my_field") = "MyField",
\* camelCase("my_field") = "myField", snake_case("MyFieldName") =
\* "my_field_name", kebab-case("MyFieldName") = "my-field-name",
\* UPPERCASE("MyField") = "MYFIELD", lowercase("InProgress") = "inprogress".
C20_ConversionTable ==
    Transformed
    => /\ (name = my_field /\ rename_all = Some("PascalCase"))
             => wire = <<"M","y","F","i","e","l","d">>
       /\ (name = my_field /\ rename_all = Some("camelCase"))
             => wire = <<"m","y","F","i","e","l","d">>
       /\ (name = MyFieldName /\ rename_all = Some("snake_case"))
             => wire = <<"m","y","_","f","i","e","l","d","_","n","a","m","e">>
       /\ (name = MyFieldName /\ rename_all = Some("kebab-case"))
             => wire = <<"m","y","-","f","i","e","l","d","-","n","a","m","e">>
       /\ (name = MyField /\ rename_all = Some("UPPERCASE"))
             => wire = <<"M","Y","F","I","E","L","D">>
       /\ (name = InProgress /\ rename_all = Some("lowercase"))
             => wire = <<"i","n","p","r","o","g","r","e","s","s">>

C20_Witness ==
    /\ pc = "field"
    /\ field_tokens = <<>>
    /\ name = my_field
    /\ rename_all = Some("camelCase")
    /\ wire = <<"m","y","F","i","e","l","d">>

---------------------------------------------------------------------------
(* Claims about argument counts, zero-field records, failures and frames *)

\* C21: encoding a variant of a unit-variant enumeration writes exactly
\* one argument: the variant's identifier when no rename_all is set, the
\* rule's conversion of the identifier otherwise.
C21_EnumEncodesOneArgument ==
    (pc \in {"encoded", "replied", "round_trip"} /\ decl.shape = "enum")
    => /\ Len(out) = 1
       /\ decl.rename_all = None => out[1] = decl.variants[self].ident
       /\ IsSome(decl.rename_all)
             => out[1] = transform_variant_name(decl.variants[self].ident, decl.rename_all)

C21_Witness ==
    /\ pc = "encoded"
    /\ decl.shape = "enum"
    /\ decl.rename_all = Some("UPPERCASE")
    /\ self = 1
    /\ out = << <<"R","E","D">> >>

\* C22: a record with zero fields, in unit, empty-brace or empty-tuple
\* form, is decoded from every wire value (Nil, strings, integers, Arrays
\* and Maps of any content): decode succeeds with the single instance.
C22_ZeroFieldDecodesAnything ==
    (/\ pc \in {"decoded", "round_trip"}
     /\ IsRecord(decl)
     /\ Len(decl.fields) = 0)
    => (result.ok /\ result.val = self)

\* the same for the unit form alone
C22_UnitFormDecodesAnything ==
    (pc \in {"decoded", "round_trip"} /\ decl.shape = "unit")
    => (result.ok /\ result.val = self)

\* the wire name of a declared field
WireName(d, f) ==
    transform_field_name(f.ident, d.rename_all, parse_field_attributes(f.tokens).rename)

\* wire name, then the arguments of the field's own encoding, for the
\* first n declared fields that the macro does not skip
RECURSIVE NameThenArgs(_, _, _)
NameThenArgs(d, inst, n) ==
    IF n = 0 THEN <<>>
    ELSE NameThenArgs(d, inst, n - 1)
         \o (IF Skipped(d.fields[n]) THEN <<>>
             ELSE <<WireName(d, d.fields[n])>>
                  \o write_field_args(d.fields[n].ty, inst[d.fields[n].ident]))

StringKeys(val) ==
    \A k \in 1..NumPairs(val) :
       PairAt(val, k)[1].t = "BulkString" /\ from_utf8_ok(PairAt(val, k)[1].b)

\* what the field's own decoder makes of the value v binds to its name
NestedDecode(val, f) ==
    field_from_redis_value(f.ty, PairAt(val, LastPairUnder(val, f.name))[2])

\* v binds the field's name to a value that the field's decoder rejects
FailsNested(val, f) == ~Lacks(val, f) /\ ~NestedDecode(val, f).ok

Derivable(d) ==
    /\ d.rename_all = None \/ Unwrap(d.rename_all) \in ValidRules
    /\ d.shape = "enum" => \A i \in 1..Len(d.variants) : d.variants[i].unit

\* the first variant of d whose wire name is s
FirstUnder(d, s) ==
    CHOOSE i \in 1..Len(d.variants) :
       /\ transform_variant_name(d.variants[i].ident, d.rename_all) = s
       /\ \A j \in 1..(i - 1) :
             transform_variant_name(d.variants[j].ident, d.rename_all) # s

\* variant i of d shares its wire name with a variant declared before it
Shadowed(d, i) ==
    \E j \in 1..(i - 1) :
       transform_variant_name(d.variants[j].ident, d.rename_all)
          = transform_variant_name(d.variants[i].ident, d.rename_all)

\* C25: a type in which two variants or two fields resolve to the same
\* wire name is not rejected: both procedures are generated; decoding the
\* shared token gives the variant declared first, so a later variant is
\* never the result of decoding what its own encode wrote.
C25_CollisionsAcceptedFirstWins ==
    /\ (Derivable(decl) /\ to_impl.status # "none") => to_impl.status = "ok"
    /\ (Derivable(decl) /\ from_impl.status # "none") => from_impl.status = "ok"
    /\ (/\ pc \in {"decoded", "round_trip"}
        /\ decl.shape = "enum"
        /\ v.t \in StringShapes
        /\ v.b \in ValidTokens(from_impl.variants))
       => result = Ok(FirstUnder(decl, v.b))
    /\ (pc = "round_trip" /\ decl.shape = "enum" /\ Shadowed(decl, self))
       => (result.ok /\ result.val < self /\ result.val = FirstUnder(decl, out[1]))

C25_Witness ==
    /\ pc = "round_trip"
    /\ decl.shape = "enum"
    /\ decl.rename_all = Some("lowercase")
    /\ self = 3
    /\ out = << <<"r","e","d">> >>
    /\ result = Ok(1)

C27_NumOfArgsMatchesWritten ==
    pc = "counted" => count = Len(out)

C27_Witness ==
    /\ pc = "counted"
    /\ decl.shape = "named"
    /\ Len(decl.fields) = 2
    /\ decl.fields[1].ty = "Vec"
    /\ decl.fields[2].ty = "Option"
    /\ Len(self[decl.fields[1].ident]) = 2
    /\ self[decl.fields[2].ident] = None
    /\ count = 4
    /\ Len(out) = 4

\* the field's directives include skip
DeclaresSkip(f) == f.tokens = TokSkip \/ \E lit \in RenameLiterals : f.tokens = TokSkipRename(lit)

\* the generated procedure handles the declared field f under its wire name
Handles(impl, d, f) ==
    \E k \in 1..Len(impl.fields) :
       impl.fields[k].ident = f.ident /\ impl.fields[k].name = WireName(d, f)

\* C28: a field is left out of the wire representation only if it declares
\* skip: a field whose directives do not include skip, such as one that
\* carries only rename = "skip_count", is encoded and decoded under its
\* renamed wire name.
C28_OnlySkipOmits ==
    (decl.shape = "named" /\ Derivable(decl))
    => \A i \in 1..Len(decl.fields) :
          ~DeclaresSkip(decl.fields[i])
          => /\ to_impl.status = "ok" => Handles(to_impl, decl, decl.fields[i])
             /\ from_impl.status = "ok" => Handles(from_impl, decl, decl.fields[i])
             /\ pc = "encoded"
                   => \E k \in 1..Len(out) : out[k] = WireName(decl, decl.fields[i])

\* the same for fields whose rename literal does not contain "skip"
C28_OtherLiteralsKept ==
    (decl.shape = "named" /\ Derivable(decl))
    => \A i \in 1..Len(decl.fields) :
          (~DeclaresSkip(decl.fields[i]) /\ decl.fields[i].tokens # TokRename(SkipCount))
          => /\ to_impl.status = "ok" => Handles(to_impl, decl, decl.fields[i])
             /\ from_impl.status = "ok" => Handles(from_impl, decl, decl.fields[i])
             /\ pc = "encoded"
                   => \E k \in 1..Len(out) : out[k] = WireName(decl, decl.fields[i])

\* the pairs of v in one sequence
PairsOf(val) == [k \in 1..NumPairs(val) |-> PairAt(val, k)]

\* the pairs of v whose name is the wire name of a declared field
DeclaredPairs(fields, val) ==
    LET IsDeclared(p) == \E i \in 1..Len(fields) : fields[i].name = p[1].b
    IN SelectSeq(PairsOf(val), IsDeclared)

ReversedPairs(val) == [k \in 1..NumPairs(val) |-> PairAt(val, NumPairs(val) + 1 - k)]

DistinctKeys(val) ==
    \A j, k \in 1..NumPairs(val) : j # k => PairAt(val, j)[1].b # PairAt(val, k)[1].b

\* C29: what a named-field record decodes to depends only on the values
\* bound to the declared wire names: pairs under other string names, and
\* the order of pairs with distinct names, change neither the decoded
\* instance nor success into failure.
C29_OnlyDeclaredNamesMatter ==
    (/\ pc = "decoded"
     /\ from_impl.shape = "named"
     /\ PairShaped(v)
     /\ StringKeys(v))
    => /\ result = from_redis_value(from_impl, Map(DeclaredPairs(from_impl.fields, v)))
       /\ result = from_redis_value(from_impl, Map(<<UnknownPair>> \o PairsOf(v)))
       /\ result = from_redis_value(from_impl, Array(Flatten(PairsOf(v) \o <<UnknownPair>>)))
       /\ DistinctKeys(v)
             => result = from_redis_value(from_impl, Map(ReversedPairs(v)))

C29_Witness ==
    /\ pc = "decoded"
    /\ from_impl.shape = "named"
    /\ Len(from_impl.fields) = 2
    /\ DistinctWireNames(from_impl.fields)
    /\ v.t = "Map"
    /\ Len(v.pairs) = 3
    /\ v.pairs[1] = UnknownPair
    /\ result.ok

\* the field has no pair in v, or its nested decode fails
AbsentOrFailing(val, f) == Lacks(val, f) \/ FailsNested(val, f)

\* the first declared field that is absent or failing
FirstAbsentOrFailing(fields, val) ==
    CHOOSE i \in 1..Len(fields) :
       /\ AbsentOrFailing(val, fields[i])
       /\ \A j \in 1..(i - 1) : ~AbsentOrFailing(val, fields[j])

====
